---- MODULE Spec2Model ----
(***************************************************************************)
(* A model of the finite-automaton engine of rust-automata: the NFA        *)
(* (src/src/nfa.rs) with its breadth-first run and its subset construction *)
(* into_dfa, and the DFA (src/src/dfa.rs) with its run and its iterator.   *)
(***************************************************************************)
EXTENDS Integers, Sequences, FiniteSets, TLC

(***************************************************************************)
(* Bounds of the model.                                                    *)
(***************************************************************************)
\* inputs are the sequences over Symbols of length at most MaxLen
MaxLen == 2
\* a transition table given to NFA::new or DFA::new has at most MaxKeys entries
MaxKeys == 2
\* NFA::run is followed for at most MaxIter iterations of its while loop
MaxIter == 5
\* an exhausted DFAIter is pulled at most ExtraPulls more times
ExtraPulls == 2
\* the tables of the NFAs over three states have at most WideKeys entries
WideKeys == 3
\* the pulls a caller makes on an NFAIter
MaxPulls == 12

\* the type parameters I and S: the alphabet, and the state labels of the
\* automata a caller builds (into_dfa numbers the states of its result itself)
Symbols == {"a", "b"}
States == {0, 1}
WideStates == {0, 1, 2}
Inputs == UNION {[1 .. n -> Symbols] : n \in 0 .. MaxLen}

(***************************************************************************)
(* enum Transition<I> { Anything, Epsilon, Input(I) }                      *)
(***************************************************************************)
Anything == <<"Anything">>
Epsilon == <<"Epsilon">>
Input(c) == <<"Input", c>>
Labels == {Anything, Epsilon} \cup {Input(c) : c \in Symbols}

\* HashMap::get: the entry of key k, when there is one
HasKey(map, k) == k \in DOMAIN map

\* the tables of at most MaxKeys entries with keys in K and values in V
Tables(K, V) ==
    UNION {[D -> V] : D \in {X \in SUBSET K : Cardinality(X) <= MaxKeys}}

\* the orders in which an iteration can visit the elements of a HashSet
Orders(S) ==
    {f \in [1 .. Cardinality(S) -> S] : \A i, j \in DOMAIN f : f[i] = f[j] => i = j}

Range(f) == {f[i] : i \in DOMAIN f}

RECURSIVE Pow2(_)
Pow2(n) == IF n <= 0 THEN 1 ELSE 2 * Pow2(n - 1)

(***************************************************************************)
(* Option<T>, and the ways a call can stand: still running, or ended by a  *)
(* panic (an index out of bounds).                                         *)
(***************************************************************************)
None == <<"None">>
Some(x) == <<"Some", x>>
Running == <<"Running">>
Panic == <<"Panic">>
IsSome(o) == o[1] = "Some"

VARIABLES
    phase,  \* which call of the caller is in progress
    nfa,    \* the NFA: [start, accept_states, transitions]
    dfa,    \* the DFA: [start, accept_states, transitions]
    input,  \* the Vec<I> handed to run and to iter
    conv,   \* the locals of NFA::into_dfa
    drun,   \* the locals of DFA::run and its result
    nrun,   \* the locals of NFA::run and its result
    iter,   \* the DFAIter: [pos, cur_state], or the NFAIter: [queue]
    pulled  \* what the caller of next has seen: [count, last, yielded]

vars == <<phase, nfa, dfa, input, conv, drun, nrun, iter, pulled>>

(***************************************************************************)
(* The automata a caller can build: NFA::new and DFA::new store what they  *)
(* are given, unchecked.                                                   *)
(***************************************************************************)
NFAs ==
    [start : States,
     accept_states : SUBSET States,
     transitions : Tables(States \X Labels, (SUBSET States) \ {{}})]

DFAs ==
    [start : States,
     accept_states : SUBSET States,
     transitions : Tables(States \X (Labels \ {Epsilon}), States)]

\* NFAs over three states: start 0, the accept state 2 or none, and a table
\* of at most WideKeys entries with one destination each
WideNFAs ==
    [start : {0},
     accept_states : SUBSET {2},
     transitions :
        UNION {[D -> {{q} : q \in WideStates}] :
                  D \in {X \in SUBSET (WideStates \X Labels) :
                            Cardinality(X) <= WideKeys}}]

NoNFA == [start |-> 0, accept_states |-> {}, transitions |-> <<>>]
NoDFA == [start |-> 0, accept_states |-> {}, transitions |-> <<>>]

(***************************************************************************)
(* DFA::run, dfa.rs 102-128: one step is one iteration of `for c in s`,    *)
(* or, after the last symbol, the test of the final state.                 *)
(***************************************************************************)
DFA_run_begin(d) ==
    [cur_state |-> d.start, path |-> <<>>, pos |-> 0, result |-> Running]

\* DFA_run_step without the fallback to the Anything entry
DFA_run_step_no_fallback(d, s, r) ==
    IF r.pos = Len(s)
    THEN [r EXCEPT !.result =
             IF r.cur_state \in d.accept_states THEN Some(r.path) ELSE None]
    ELSE LET c == s[r.pos + 1] IN
         IF HasKey(d.transitions, <<r.cur_state, Input(c)>>)
         THEN [r EXCEPT !.cur_state = d.transitions[<<r.cur_state, Input(c)>>],
                        !.path = Append(@, c),
                        !.pos = @ + 1]
         ELSE [r EXCEPT !.result = None]

\* DFA_run_step without path.push(c) in the Anything arm
DFA_run_step_no_push(d, s, r) ==
    IF r.pos = Len(s)
    THEN [r EXCEPT !.result =
             IF r.cur_state \in d.accept_states THEN Some(r.path) ELSE None]
    ELSE LET c == s[r.pos + 1] IN
         IF HasKey(d.transitions, <<r.cur_state, Input(c)>>)
         THEN [r EXCEPT !.cur_state = d.transitions[<<r.cur_state, Input(c)>>],
                        !.path = Append(@, c),
                        !.pos = @ + 1]
         ELSE IF HasKey(d.transitions, <<r.cur_state, Anything>>)
         THEN [r EXCEPT !.cur_state = d.transitions[<<r.cur_state, Anything>>],
                        !.pos = @ + 1]
         ELSE [r EXCEPT !.result = None]

DFA_run_step(d, s, r) ==
    IF r.pos = Len(s)
    THEN [r EXCEPT !.result =
             IF r.cur_state \in d.accept_states THEN Some(r.path) ELSE None]
    ELSE LET c == s[r.pos + 1] IN
         IF HasKey(d.transitions, <<r.cur_state, Input(c)>>)
         THEN [r EXCEPT !.cur_state = d.transitions[<<r.cur_state, Input(c)>>],
                        !.path = Append(@, c),
                        !.pos = @ + 1]
         ELSE IF HasKey(d.transitions, <<r.cur_state, Anything>>)
         THEN [r EXCEPT !.cur_state = d.transitions[<<r.cur_state, Anything>>],
                        !.path = Append(@, c),
                        !.pos = @ + 1]
         ELSE [r EXCEPT !.result = None]

(***************************************************************************)
(* DFA::iter, dfa.rs 93-95, and DFAIter::next, dfa.rs 46-85.               *)
(* DFAIter_next gives the iterator after the pull and the value returned.  *)
(***************************************************************************)
DFA_iter(d) == [pos |-> 0, cur_state |-> d.start]

\* DFAIter_next that does not skip the rest of the input at a missing transition
DFAIter_next_no_skip(d, s, it) ==
    IF it.pos > Len(s)
    THEN [it |-> it, ret |-> None]
    ELSE IF it.pos = Len(s)
    THEN [it |-> [it EXCEPT !.pos = @ + 1], ret |-> Some(it.cur_state)]
    ELSE LET c == s[it.pos + 1] IN
         IF HasKey(d.transitions, <<it.cur_state, Input(c)>>)
         THEN [it |-> [pos |-> it.pos + 1,
                       cur_state |-> d.transitions[<<it.cur_state, Input(c)>>]],
               ret |-> Some(it.cur_state)]
         ELSE IF HasKey(d.transitions, <<it.cur_state, Anything>>)
         THEN [it |-> [pos |-> it.pos + 1,
                       cur_state |-> d.transitions[<<it.cur_state, Anything>>]],
               ret |-> Some(it.cur_state)]
         ELSE [it |-> it, ret |-> Some(it.cur_state)]

\* DFAIter_next that advances pos on every pull, also on an exhausted iterator
DFAIter_next_always_advance(d, s, it) ==
    IF it.pos > Len(s)
    THEN [it |-> [it EXCEPT !.pos = @ + 1], ret |-> None]
    ELSE IF it.pos = Len(s)
    THEN [it |-> [it EXCEPT !.pos = @ + 1], ret |-> Some(it.cur_state)]
    ELSE LET c == s[it.pos + 1] IN
         IF HasKey(d.transitions, <<it.cur_state, Input(c)>>)
         THEN [it |-> [pos |-> it.pos + 1,
                       cur_state |-> d.transitions[<<it.cur_state, Input(c)>>]],
               ret |-> Some(it.cur_state)]
         ELSE IF HasKey(d.transitions, <<it.cur_state, Anything>>)
         THEN [it |-> [pos |-> it.pos + 1,
                       cur_state |-> d.transitions[<<it.cur_state, Anything>>]],
               ret |-> Some(it.cur_state)]
         ELSE [it |-> [it EXCEPT !.pos = Len(s) + 1], ret |-> Some(it.cur_state)]

\* DFAIter_next that yields the state it has moved to, not the one it left
DFAIter_next_yield_next(d, s, it) ==
    IF it.pos > Len(s)
    THEN [it |-> it, ret |-> None]
    ELSE IF it.pos = Len(s)
    THEN [it |-> [it EXCEPT !.pos = @ + 1], ret |-> Some(it.cur_state)]
    ELSE LET c == s[it.pos + 1] IN
         IF HasKey(d.transitions, <<it.cur_state, Input(c)>>)
         THEN [it |-> [pos |-> it.pos + 1,
                       cur_state |-> d.transitions[<<it.cur_state, Input(c)>>]],
               ret |-> Some(d.transitions[<<it.cur_state, Input(c)>>])]
         ELSE IF HasKey(d.transitions, <<it.cur_state, Anything>>)
         THEN [it |-> [pos |-> it.pos + 1,
                       cur_state |-> d.transitions[<<it.cur_state, Anything>>]],
               ret |-> Some(d.transitions[<<it.cur_state, Anything>>])]
         ELSE [it |-> [it EXCEPT !.pos = Len(s) + 1], ret |-> Some(it.cur_state)]

DFAIter_next(d, s, it) ==
    IF it.pos > Len(s)
    THEN [it |-> it, ret |-> None]
    ELSE IF it.pos = Len(s)
    THEN [it |-> [it EXCEPT !.pos = @ + 1], ret |-> Some(it.cur_state)]
    ELSE LET c == s[it.pos + 1] IN
         IF HasKey(d.transitions, <<it.cur_state, Input(c)>>)
         THEN [it |-> [pos |-> it.pos + 1,
                       cur_state |-> d.transitions[<<it.cur_state, Input(c)>>]],
               ret |-> Some(it.cur_state)]
         ELSE IF HasKey(d.transitions, <<it.cur_state, Anything>>)
         THEN [it |-> [pos |-> it.pos + 1,
                       cur_state |-> d.transitions[<<it.cur_state, Anything>>]],
               ret |-> Some(it.cur_state)]
         ELSE [it |-> [it EXCEPT !.pos = Len(s) + 1], ret |-> Some(it.cur_state)]

(***************************************************************************)
(* The helpers of into_dfa, nfa.rs 156-192.                                *)
(***************************************************************************)
\* nfa.rs 171-181: the destinations of `input` from any state of `states`
reachable_states(n, states, label) ==
    UNION {n.transitions[<<s, label>>] :
              s \in {x \in states : HasKey(n.transitions, <<x, label>>)}}

\* nfa.rs 156-169: some state common to `states` and the accept states; the
\* loop runs over the smaller set, and which common state it meets first is
\* the HashSet's business: into_dfa looks only at Some or None
get_accept(n, states) ==
    LET small == IF Cardinality(states) < Cardinality(n.accept_states)
                 THEN states ELSE n.accept_states
        other == IF Cardinality(states) < Cardinality(n.accept_states)
                 THEN n.accept_states ELSE states
    IN IF \E s \in small : s \in other
       THEN Some(CHOOSE s \in small : s \in other)
       ELSE None

\* nfa.rs 185-187: one iteration of the loop of epsilon_closure
epsilon_closure_extend(n, states) ==
    states \cup reachable_states(n, states, Epsilon)

\* the test of epsilon_closure with > for ==
epsilon_closure_break_greater(old_len, new_len) == old_len > new_len

\* nfa.rs 188: the loop breaks when the set did not grow
epsilon_closure_break(old_len, new_len) == old_len = new_len

\* nfa.rs 103-111: the labels of the table, Epsilon left out
alphabet_of(n) == {k[2] : k \in DOMAIN n.transitions} \ {Epsilon}

\* nfa.rs 129-134: for the label Anything, every label b of the alphabet, in
\* the alphabet's iteration order, extends new_state by what b reaches from it
RECURSIVE absorb(_, _, _, _)
absorb(n, new_state, alphabet, i) ==
    IF i > Len(alphabet)
    THEN new_state
    ELSE absorb(n, new_state \cup reachable_states(n, new_state, alphabet[i]),
                alphabet, i + 1)

\* an entry that is taken for Vacant whatever states holds
is_vacant_always(states, new_state_set) == TRUE

\* nfa.rs 138: states.entry(new_state_set) is Vacant
is_vacant(states, new_state_set) == ~HasKey(states, new_state_set)

\* HashMap::insert
Insert(map, k, v) == [x \in DOMAIN map \cup {k} |-> IF x = k THEN v ELSE map[x]]

NoConv ==
    [pc |-> "begin", alphabet |-> <<>>, states |-> <<>>, accept_states |-> {},
     transitions |-> <<>>, id |-> 0, queue |-> <<>>, cur_id |-> 0,
     cur_state |-> {}, a |-> 0, new_state |-> {}]

(***************************************************************************)
(* NFA::run, nfa.rs 199-231: one step is one iteration of the while loop.  *)
(* eo, ao and io are the orders in which the three `for item in set` loops *)
(* visit their HashSet.                                                    *)
(***************************************************************************)
Dest(n, state, label) ==
    IF HasKey(n.transitions, <<state, label>>)
    THEN n.transitions[<<state, label>>] ELSE {}

Pushes(order, pos) == [i \in DOMAIN order |-> <<order[i], pos>>]

\* cur is the pair (state, pos) the loop has taken off the queue last
NFA_run_begin(n) ==
    [queue |-> <<<<n.start, 0>>>>, cur |-> <<>>, path |-> <<>>, result |-> Running]

\* nfa.rs 217: s[pos] is defined for pos < s.len() and panics otherwise
InBounds(s, pos) == pos < Len(s)

NFA_run_step(n, s, r, eo, ao, io) ==
    IF r.queue = <<>>
    THEN [r EXCEPT !.result = None]
    ELSE LET state == Head(r.queue)[1]
             pos == Head(r.queue)[2]
             q1 == Tail(r.queue) \o Pushes(eo, pos)
             q2 == q1 \o Pushes(ao, pos + 1)
             here == [r EXCEPT !.cur = <<state, pos>>, !.queue = q2]
         IN IF ~InBounds(s, pos)
            THEN [here EXCEPT !.result = Panic]
            ELSE LET path == Append(r.path, s[pos + 1]) IN
                 IF pos = Len(s)
                 THEN IF state \in n.accept_states
                      THEN [here EXCEPT !.path = path, !.result = Some(path)]
                      ELSE [here EXCEPT !.path = path]
                 ELSE [here EXCEPT !.path = path,
                                   !.queue = q2 \o Pushes(io, pos + 1)]

(***************************************************************************)
(* NFA::iter and NFAIter::next, nfa.rs 42-70 and 95-99.  The NFAIter holds *)
(* the worklist of (state, pos) pairs; its input is the variable input and *)
(* its transitions are those of the NFA.  so and eo are the orders in      *)
(* which the two `for item in set` loops visit their HashSet.              *)
(***************************************************************************)
NFA_iter(n) == [queue |-> <<<<n.start, 0>>>>]

\* nfa.rs 51-61: the set the first loop runs over, the Input entry if the
\* table has one and else the Anything entry
NFAIter_consuming(n, s, state, pos) ==
    IF pos < Len(s)
    THEN IF HasKey(n.transitions, <<state, Input(s[pos + 1])>>)
         THEN n.transitions[<<state, Input(s[pos + 1])>>]
         ELSE IF HasKey(n.transitions, <<state, Anything>>)
              THEN n.transitions[<<state, Anything>>]
              ELSE {}
    ELSE {}

\* NFAIter::next without the loop of nfa.rs 62-66
NFAIter_next_no_epsilon(it, so, eo) ==
    IF it.queue = <<>>
    THEN [it |-> it, ret |-> None]
    ELSE LET state == Head(it.queue)[1]
             pos == Head(it.queue)[2]
         IN [it |-> [queue |-> Tail(it.queue) \o Pushes(so, pos + 1)],
             ret |-> Some(state)]

\* NFAIter::next reading the front of the queue without taking it off
NFAIter_next_no_pop(it, so, eo) ==
    IF it.queue = <<>>
    THEN [it |-> it, ret |-> None]
    ELSE LET state == Head(it.queue)[1]
             pos == Head(it.queue)[2]
         IN [it |-> [queue |-> it.queue \o Pushes(so, pos + 1) \o Pushes(eo, pos)],
             ret |-> Some(state)]

\* nfa.rs 42-70: the NFAIter after the pull and the value the pull returns
NFAIter_next(it, so, eo) ==
    IF it.queue = <<>>
    THEN [it |-> it, ret |-> None]
    ELSE LET state == Head(it.queue)[1]
             pos == Head(it.queue)[2]
         IN [it |-> [queue |-> Tail(it.queue) \o Pushes(so, pos + 1)
                                              \o Pushes(eo, pos)],
             ret |-> Some(state)]

(***************************************************************************)
(* The state before any call.                                              *)
(***************************************************************************)
NoDRun == [cur_state |-> 0, path |-> <<>>, pos |-> 0, result |-> Running]
NoNRun == [queue |-> <<>>, cur |-> <<>>, path |-> <<>>, result |-> Running]
NoIter == [pos |-> 0, cur_state |-> 0]
NotPulled == <<"NotPulled">>
NoPulled == [count |-> 0, last |-> NotPulled, yielded |-> <<>>]

\* the caller holds an NFA and converts it
Init ==
    /\ phase = "convert"
    /\ nfa \in NFAs
    /\ dfa = NoDFA
    /\ input = <<>>
    /\ conv = NoConv
    /\ drun = NoDRun
    /\ nrun = NoNRun
    /\ iter = NoIter
    /\ pulled = NoPulled

\* the caller holds an NFA over three states whose table has at most WideKeys
\* entries of one destination each, and converts it
InitWide ==
    /\ phase = "convert"
    /\ nfa \in WideNFAs
    /\ dfa = NoDFA
    /\ input = <<>>
    /\ conv = NoConv
    /\ drun = NoDRun
    /\ nrun = NoNRun
    /\ iter = NoIter
    /\ pulled = NoPulled

\* the caller holds a DFA built with DFA::new
InitDFA ==
    /\ phase = "dfa_ready"
    /\ nfa = NoNFA
    /\ dfa \in DFAs
    /\ input = <<>>
    /\ conv = NoConv
    /\ drun = NoDRun
    /\ nrun = NoNRun
    /\ iter = NoIter
    /\ pulled = NoPulled

\* the caller holds an NFA built with NFA::new; the traversal never reads
\* accept_states
InitNFA ==
    /\ phase = "nfa_ready"
    /\ nfa \in {n \in NFAs : n.accept_states = {}}
    /\ dfa = NoDFA
    /\ input = <<>>
    /\ conv = NoConv
    /\ drun = NoDRun
    /\ nrun = NoNRun
    /\ iter = NoIter
    /\ pulled = NoPulled

(***************************************************************************)
(* NFA::into_dfa, nfa.rs 101-154.                                          *)
(***************************************************************************)
\* into_dfa is running: the caller's first call of it, or a second call on
\* the same NFA, whose result is not stored in dfa but left in conv
Converting == phase \in {"convert", "convert_again"}

\* nfa.rs 153: DFA::new(0, accept_states, transitions)
into_dfa_result(c) ==
    [start |-> 0, accept_states |-> c.accept_states, transitions |-> c.transitions]

\* nfa.rs 102-120: the alphabet, whose iteration order is the HashSet's, the
\* empty tables, and init_state = {start}
IntoDfaBegin ==
    /\ Converting
    /\ conv.pc = "begin"
    /\ \E order \in Orders(alphabet_of(nfa)) :
          conv' = [NoConv EXCEPT !.pc = "init_closure",
                                 !.alphabet = order,
                                 !.new_state = {nfa.start}]
    /\ UNCHANGED <<phase, nfa, dfa, input, drun, nrun, iter, pulled>>

\* nfa.rs 183-192: one iteration of the loop of epsilon_closure, called at
\* nfa.rs 121 on init_state and at nfa.rs 127 on new_state
EpsilonClosureStep ==
    /\ Converting
    /\ conv.pc \in {"init_closure", "closure"}
    /\ LET grown == epsilon_closure_extend(nfa, conv.new_state) IN
       conv' = [conv EXCEPT
                   !.new_state = grown,
                   !.pc = IF epsilon_closure_break(Cardinality(conv.new_state),
                                                   Cardinality(grown))
                          THEN (IF conv.pc = "init_closure" THEN "seed" ELSE "register")
                          ELSE conv.pc]
    /\ UNCHANGED <<phase, nfa, dfa, input, drun, nrun, iter, pulled>>

\* nfa.rs 122-123: the closed init_state is queued with the id 0 and entered
\* in states with 0
IntoDfaSeed ==
    /\ Converting
    /\ conv.pc = "seed"
    /\ conv' = [conv EXCEPT !.pc = "pop",
                            !.queue = Append(@, <<conv.id, conv.new_state>>),
                            !.id = @ + 1,
                            !.states = Insert(@, conv.new_state, 0)]
    /\ UNCHANGED <<phase, nfa, dfa, input, drun, nrun, iter, pulled>>

\* nfa.rs 124 and 153: the next subset is taken off the queue; when the queue
\* is empty the loop ends and DFA::new(0, accept_states, transitions) is returned
IntoDfaPop ==
    /\ Converting
    /\ conv.pc = "pop"
    /\ IF conv.queue = <<>>
       THEN /\ conv' = [conv EXCEPT !.pc = "done"]
            /\ dfa' = IF phase = "convert" THEN into_dfa_result(conv) ELSE dfa
            /\ phase' = IF phase = "convert" THEN "dfa_ready" ELSE "converted_again"
       ELSE /\ conv' = [conv EXCEPT !.pc = "label",
                                    !.cur_id = Head(conv.queue)[1],
                                    !.cur_state = Head(conv.queue)[2],
                                    !.queue = Tail(@),
                                    !.a = 1]
            /\ UNCHANGED <<dfa, phase>>
    /\ UNCHANGED <<nfa, input, drun, nrun, iter, pulled>>

\* nfa.rs 125-126: the next label a of the alphabet, and what it reaches
IntoDfaLabel ==
    /\ Converting
    /\ conv.pc = "label"
    /\ IF conv.a > Len(conv.alphabet)
       THEN conv' = [conv EXCEPT !.pc = "pop"]
       ELSE conv' = [conv EXCEPT
                        !.pc = "closure",
                        !.new_state = reachable_states(nfa, conv.cur_state,
                                                       conv.alphabet[conv.a])]
    /\ UNCHANGED <<phase, nfa, dfa, input, drun, nrun, iter, pulled>>

\* into_dfa_register with queue.push_back outside the Vacant arm
into_dfa_register_push_always(n, c) ==
    LET a == c.alphabet[c.a]
        new_state == IF a = Anything
                     THEN absorb(n, c.new_state, c.alphabet, 1)
                     ELSE c.new_state
        vacant == is_vacant(c.states, new_state)
        states == IF vacant THEN Insert(c.states, new_state, c.id) ELSE c.states
    IN IF Cardinality(new_state) > 0
       THEN [c EXCEPT
                !.pc = "label",
                !.a = @ + 1,
                !.new_state = new_state,
                !.id = IF vacant THEN @ + 1 ELSE @,
                !.accept_states =
                    IF vacant /\ IsSome(get_accept(n, new_state))
                    THEN @ \cup {c.id} ELSE @,
                !.queue = Append(@, <<states[new_state], new_state>>),
                !.states = states,
                !.transitions = Insert(@, <<c.cur_id, a>>, states[new_state])]
       ELSE [c EXCEPT !.pc = "label", !.a = @ + 1, !.new_state = new_state]

\* into_dfa_register without the test new_state.len() > 0
into_dfa_register_no_guard(n, c) ==
    LET a == c.alphabet[c.a]
        new_state == IF a = Anything
                     THEN absorb(n, c.new_state, c.alphabet, 1)
                     ELSE c.new_state
        vacant == is_vacant(c.states, new_state)
        states == IF vacant THEN Insert(c.states, new_state, c.id) ELSE c.states
    IN [c EXCEPT
           !.pc = "label",
           !.a = @ + 1,
           !.new_state = new_state,
           !.id = IF vacant THEN @ + 1 ELSE @,
           !.accept_states =
               IF vacant /\ IsSome(get_accept(n, new_state))
               THEN @ \cup {c.id} ELSE @,
           !.queue = IF vacant THEN Append(@, <<c.id, new_state>>) ELSE @,
           !.states = states,
           !.transitions = Insert(@, <<c.cur_id, a>>, states[new_state])]

\* nfa.rs 129-149: the rest of the body of `for a in alphabet.iter()`, after
\* the closure of new_state
into_dfa_register(n, c) ==
    LET a == c.alphabet[c.a]
        new_state == IF a = Anything
                     THEN absorb(n, c.new_state, c.alphabet, 1)
                     ELSE c.new_state
        vacant == is_vacant(c.states, new_state)
        states == IF vacant THEN Insert(c.states, new_state, c.id) ELSE c.states
    IN IF Cardinality(new_state) > 0
       THEN [c EXCEPT
                !.pc = "label",
                !.a = @ + 1,
                !.new_state = new_state,
                !.id = IF vacant THEN @ + 1 ELSE @,
                !.accept_states =
                    IF vacant /\ IsSome(get_accept(n, new_state))
                    THEN @ \cup {c.id} ELSE @,
                !.queue = IF vacant THEN Append(@, <<c.id, new_state>>) ELSE @,
                !.states = states,
                !.transitions = Insert(@, <<c.cur_id, a>>, states[new_state])]
       ELSE [c EXCEPT !.pc = "label", !.a = @ + 1, !.new_state = new_state]

IntoDfaRegister ==
    /\ Converting
    /\ conv.pc = "register"
    /\ conv' = into_dfa_register(nfa, conv)
    /\ UNCHANGED <<phase, nfa, dfa, input, drun, nrun, iter, pulled>>

\* nfa.rs 101: the caller converts the same NFA once more
IntoDfaAgain ==
    /\ phase = "dfa_ready"
    /\ conv.pc = "done"
    /\ conv' = NoConv
    /\ phase' = "convert_again"
    /\ UNCHANGED <<nfa, dfa, input, drun, nrun, iter, pulled>>

(***************************************************************************)
(* The calls of DFA::run and NFA::run on one input, and of DFA::iter.      *)
(***************************************************************************)
\* dfa.rs 102-104
DfaRunCall ==
    /\ phase = "dfa_ready"
    /\ \E s \in Inputs : input' = s
    /\ drun' = DFA_run_begin(dfa)
    /\ phase' = "dfa_run"
    /\ UNCHANGED <<nfa, dfa, conv, nrun, iter, pulled>>

\* dfa.rs 106-127
DfaRunStep ==
    /\ phase = "dfa_run"
    /\ drun.result = Running
    /\ drun' = DFA_run_step(dfa, input, drun)
    /\ UNCHANGED <<phase, nfa, dfa, input, conv, nrun, iter, pulled>>

\* nfa.rs 200-203, on the input the DFA was run on
NfaRunCall ==
    /\ phase = "dfa_run"
    /\ drun.result # Running
    /\ nrun' = NFA_run_begin(nfa)
    /\ phase' = "nfa_run"
    /\ UNCHANGED <<nfa, dfa, input, conv, drun, iter, pulled>>

\* nfa.rs 204-230
NfaRunStep ==
    /\ phase = "nfa_run"
    /\ nrun.result = Running
    /\ Len(nrun.path) < MaxIter
    /\ LET state == IF nrun.queue = <<>> THEN nfa.start ELSE Head(nrun.queue)[1]
           pos == IF nrun.queue = <<>> THEN 0 ELSE Head(nrun.queue)[2]
       IN \E eo \in Orders(Dest(nfa, state, Epsilon)),
             ao \in Orders(Dest(nfa, state, Anything)),
             io \in Orders(IF InBounds(input, pos)
                           THEN Dest(nfa, state, Input(input[pos + 1]))
                           ELSE {}) :
             nrun' = NFA_run_step(nfa, input, nrun, eo, ao, io)
    /\ UNCHANGED <<phase, nfa, dfa, input, conv, drun, iter, pulled>>

\* dfa.rs 93-95, on the input the DFA was run on
DfaIterCall ==
    /\ phase = "dfa_run"
    /\ drun.result # Running
    /\ iter' = DFA_iter(dfa)
    /\ pulled' = NoPulled
    /\ phase' = "dfa_iter"
    /\ UNCHANGED <<nfa, dfa, input, conv, drun, nrun>>

\* dfa.rs 46-85: one pull
DfaIterNext ==
    /\ phase = "dfa_iter"
    /\ pulled.count < Len(input) + 2 + ExtraPulls
    /\ LET r == DFAIter_next(dfa, input, iter) IN
       /\ iter' = r.it
       /\ pulled' = [count |-> pulled.count + 1,
                     last |-> r.ret,
                     yielded |-> IF IsSome(r.ret)
                                 THEN Append(pulled.yielded, r.ret[2])
                                 ELSE pulled.yielded]
    /\ UNCHANGED <<phase, nfa, dfa, input, conv, drun, nrun>>

\* nfa.rs 95-99, on an input of the caller's choice
NfaIterCall ==
    /\ phase = "nfa_ready"
    /\ \E s \in Inputs : input' = s
    /\ iter' = NFA_iter(nfa)
    /\ pulled' = NoPulled
    /\ phase' = "nfa_iter"
    /\ UNCHANGED <<nfa, dfa, conv, drun, nrun>>

\* nfa.rs 42-70: one pull
NfaIterNext ==
    /\ phase = "nfa_iter"
    /\ pulled.count < MaxPulls
    /\ LET state == IF iter.queue = <<>> THEN nfa.start ELSE Head(iter.queue)[1]
           pos == IF iter.queue = <<>> THEN 0 ELSE Head(iter.queue)[2]
       IN \E so \in Orders(NFAIter_consuming(nfa, input, state, pos)),
             eo \in Orders(Dest(nfa, state, Epsilon)) :
             LET r == NFAIter_next(iter, so, eo) IN
             /\ iter' = r.it
             /\ pulled' = [count |-> pulled.count + 1,
                           last |-> r.ret,
                           yielded |-> IF IsSome(r.ret)
                                       THEN Append(pulled.yielded, r.ret[2])
                                       ELSE pulled.yielded]
    /\ UNCHANGED <<phase, nfa, dfa, input, conv, drun, nrun>>

(***************************************************************************)
(* The specifications.                                                     *)
(***************************************************************************)
NextConv ==
    \/ IntoDfaBegin
    \/ EpsilonClosureStep
    \/ IntoDfaSeed
    \/ IntoDfaPop
    \/ IntoDfaLabel
    \/ IntoDfaRegister

Next ==
    \/ NextConv
    \/ DfaRunCall
    \/ DfaRunStep
    \/ NfaRunCall
    \/ NfaRunStep

NextDFA ==
    \/ DfaRunCall
    \/ DfaRunStep
    \/ DfaIterCall
    \/ DfaIterNext

\* an NFA is converted, and the DFA and the NFA are run on one input
Spec == Init /\ [][Next]_vars

\* the conversion alone, which runs on until it returns
SpecConv == Init /\ [][NextConv]_vars /\ WF_vars(NextConv)

\* an NFA over three states is converted twice
NextWide ==
    \/ NextConv
    \/ IntoDfaAgain

SpecWide == InitWide /\ [][NextWide]_vars

\* a DFA is run on an input and then traversed on it
SpecDFA == InitDFA /\ [][NextDFA]_vars

\* an NFA is traversed on an input
NextNFA ==
    \/ NfaIterCall
    \/ NfaIterNext

SpecNFA == InitNFA /\ [][NextNFA]_vars

(***************************************************************************)
(* What it means for a DFA to consume an input, stated on the table alone. *)
(***************************************************************************)
\* from q the symbol c leads to q2: by the Input(c) entry when there is one,
\* by the Anything entry otherwise
Moves(d, q, c, q2) ==
    \/ /\ HasKey(d.transitions, <<q, Input(c)>>)
       /\ q2 = d.transitions[<<q, Input(c)>>]
    \/ /\ ~HasKey(d.transitions, <<q, Input(c)>>)
       /\ HasKey(d.transitions, <<q, Anything>>)
       /\ q2 = d.transitions[<<q, Anything>>]

\* the state sequences along which the first k symbols of s are consumed
Walks(d, s, k) ==
    {w \in [0 .. k -> States] :
        /\ w[0] = d.start
        /\ \A i \in 1 .. k : Moves(d, w[i - 1], s[i], w[i])}

Consumable(d, s, k) == Walks(d, s, k) # {}

Accepted(d, s) == \E w \in Walks(d, s, Len(s)) : w[Len(s)] \in d.accept_states

DfaRunEnded == phase \in {"dfa_run", "dfa_iter"} /\ drun.result # Running

(***************************************************************************)
(* C4: DFA run returns Some exactly when every symbol of the input can be  *)
(* consumed in turn (Input entry first, Anything entry otherwise) and the  *)
(* state after the last symbol is an accept state; at the first symbol     *)
(* with neither entry it returns None at once, at that symbol.             *)
(***************************************************************************)
DfaRunAcceptsExactly ==
    DfaRunEnded =>
        /\ IsSome(drun.result) <=> Accepted(dfa, input)
        /\ ~IsSome(drun.result) => drun.result = None
        /\ ~Consumable(dfa, input, Len(input)) =>
               /\ drun.result = None
               /\ Consumable(dfa, input, drun.pos)
               /\ ~Consumable(dfa, input, drun.pos + 1)

\* a run that returned Some after falling back to the Anything entry
DfaRunAcceptsWitness ==
    /\ DfaRunEnded
    /\ IsSome(drun.result)
    /\ Len(input) = 2
    /\ ~HasKey(dfa.transitions, <<dfa.start, Input(input[1])>>)
    /\ HasKey(dfa.transitions, <<dfa.start, Anything>>)

DfaIterTotal ==
    phase = "dfa_iter" =>
        /\ Len(pulled.yielded) <= Len(input) + 1
        /\ pulled.count >= 1 =>
               /\ Len(pulled.yielded) >= 1
               /\ pulled.yielded[1] = dfa.start
        /\ pulled.count >= Len(input) + 2 => pulled.last = None

\* a traversal that ended after yielding Len(input) + 1 states
DfaIterTotalWitness ==
    /\ phase = "dfa_iter"
    /\ Len(input) = 2
    /\ pulled.last = None
    /\ Len(pulled.yielded) = Len(input) + 1

(***************************************************************************)
(* C8: once a pull of the DFA traversal has returned no value, every later *)
(* pull returns no value and leaves pos and cur_state as they are.         *)
(***************************************************************************)
DfaIterStaysExhausted ==
    [][(phase = "dfa_iter" /\ pulled.last = None) =>
           (pulled'.last = None /\ iter' = iter)]_vars

\* an exhausted traversal that was pulled again, twice
DfaIterExhaustedWitness ==
    /\ phase = "dfa_iter"
    /\ pulled.last = None
    /\ pulled.count >= Len(pulled.yielded) + 3

(***************************************************************************)
(* What it means for an NFA to accept an input, stated on the table alone: *)
(* the pairs (state, position) some execution path reaches.                *)
(***************************************************************************)
NfaSucc(n, s, cfg) ==
    {<<q, cfg[2]>> : q \in Dest(n, cfg[1], Epsilon)}
    \cup (IF cfg[2] < Len(s)
          THEN {<<q, cfg[2] + 1>> :
                   q \in Dest(n, cfg[1], Anything)
                         \cup Dest(n, cfg[1], Input(s[cfg[2] + 1]))}
          ELSE {})

RECURSIVE NfaReach(_, _, _)
NfaReach(n, s, R) ==
    LET R2 == R \cup UNION {NfaSucc(n, s, cfg) : cfg \in R}
    IN IF R2 = R THEN R ELSE NfaReach(n, s, R2)

NfaAccepts(n, s) ==
    \E cfg \in NfaReach(n, s, {<<n.start, 0>>}) :
        cfg[2] = Len(s) /\ cfg[1] \in n.accept_states

\* the states reached from S by one or more Epsilon transitions
RECURSIVE EpsilonReach(_, _)
EpsilonReach(n, S) ==
    LET S2 == S \cup UNION {Dest(n, q, Epsilon) : q \in S}
    IN IF S2 = S THEN S ELSE EpsilonReach(n, S2)

HasEpsilonCycle(n) ==
    \E q \in States : q \in EpsilonReach(n, Dest(n, q, Epsilon))

NoAnything(n) == \A k \in DOMAIN n.transitions : k[2] # Anything

NfaRunEnded == phase = "nfa_run" /\ nrun.result # Running

(***************************************************************************)
(* C1: for an NFA without Anything labels, NFA run returns Some on an      *)
(* input exactly when the run of its into_dfa() returns Some on it.        *)
(***************************************************************************)
RunAgreesWithDfa ==
    (NfaRunEnded /\ NoAnything(nfa)) =>
        (IsSome(nrun.result) <=> IsSome(drun.result))

(***************************************************************************)
(* C2: for an NFA without epsilon cycles, NFA run returns Some when some   *)
(* execution path is in an accept state at position Len(input), and None   *)
(* otherwise.                                                              *)
(***************************************************************************)
NfaRunAcceptsExactly ==
    (NfaRunEnded /\ ~HasEpsilonCycle(nfa)) =>
        IF NfaAccepts(nfa, input)
        THEN IsSome(nrun.result)
        ELSE nrun.result = None

(***************************************************************************)
(* C3: NFA run never faults: it reads the input only at indices below      *)
(* Len(input), so it ends only by returning Some or None.                  *)
(***************************************************************************)
NfaRunNeverPanics ==
    phase = "nfa_run" =>
        /\ nrun.result # Panic
        /\ nrun.result # Running => (IsSome(nrun.result) \/ nrun.result = None)

IntoDfaTerminates == <>(conv.pc = "done")

\* a conversion that returned, of an NFA with an epsilon cycle and an
\* Anything transition
IntoDfaTerminatesWitness ==
    /\ conv.pc = "done"
    /\ HasEpsilonCycle(nfa)
    /\ Anything \in Range(conv.alphabet)

(***************************************************************************)
(* C10: during into_dfa and in its result there are at most 2^N DFA        *)
(* states, N the number of states of the NFA (its start, the sources and   *)
(* the destinations of its transitions).                                   *)
(***************************************************************************)
NfaStateSet(n) ==
    {n.start} \cup {k[1] : k \in DOMAIN n.transitions}
              \cup UNION {n.transitions[k] : k \in DOMAIN n.transitions}

DfaStateSet(d) ==
    {d.start} \cup d.accept_states \cup {k[1] : k \in DOMAIN d.transitions}
              \cup {d.transitions[k] : k \in DOMAIN d.transitions}

SubsetCountBound ==
    LET bound == Pow2(Cardinality(NfaStateSet(nfa))) IN
    /\ conv.id <= bound
    /\ Cardinality(DOMAIN conv.states) <= bound
    /\ Cardinality({e[1] : e \in Range(conv.queue)}) <= bound
    /\ conv.pc = "done" => Cardinality(DfaStateSet(dfa)) <= bound

\* a conversion that returned a DFA with a state for every non-empty subset
\* of a two-state NFA
SubsetCountWitness ==
    /\ conv.pc = "done"
    /\ Cardinality(NfaStateSet(nfa)) = 2
    /\ Cardinality(DfaStateSet(dfa)) = 3
    /\ conv.id = 3

(***************************************************************************)
(* C11: with k the number of leading symbols of the input the DFA can      *)
(* consume, the traversal yields k + 1 states, and the i-th yielded state  *)
(* is the state of the DFA after the first i - 1 symbols.                  *)
(***************************************************************************)
\* the number of leading symbols of s that d consumes one after another
ConsumedPrefix(d, s) ==
    CHOOSE k \in 0 .. Len(s) :
        /\ Consumable(d, s, k)
        /\ k < Len(s) => ~Consumable(d, s, k + 1)

DfaIterYieldsWalk ==
    phase = "dfa_iter" =>
        /\ Len(pulled.yielded) <= ConsumedPrefix(dfa, input) + 1
        /\ \A i \in 1 .. Len(pulled.yielded) :
              \E w \in Walks(dfa, input, i - 1) : pulled.yielded[i] = w[i - 1]
        /\ pulled.last = None =>
              Len(pulled.yielded) = ConsumedPrefix(dfa, input) + 1

\* a traversal that ended at a missing transition after one consumed symbol,
\* in another state than the start state
DfaIterYieldsWitness ==
    /\ phase = "dfa_iter"
    /\ pulled.last = None
    /\ Len(input) = 2
    /\ ConsumedPrefix(dfa, input) = 1
    /\ pulled.yielded[2] # dfa.start

(***************************************************************************)
(* The bookkeeping of into_dfa, read off its locals.                       *)
(***************************************************************************)
\* the seed subset has been entered in states
Seeded == conv.pc \notin {"begin", "init_closure", "seed"}

\* the subsets into_dfa has registered, and the subset an id stands for
Registered == DOMAIN conv.states
SubsetOf(i) == CHOOSE S \in Registered : conv.states[S] = i

\* the ids whose subset has been through the whole loop over the alphabet
Expanded ==
    {i \in 0 .. (conv.id - 1) :
        /\ \A e \in Range(conv.queue) : e[1] # i
        /\ conv.pc \in {"label", "closure", "register"} => i # conv.cur_id}

(***************************************************************************)
(* C12: in the DFA into_dfa returns, an id is an accept state exactly when *)
(* its subset holds an accept state of the NFA; so for the id 0 too, whose *)
(* subset is the epsilon-closure of the start state.                       *)
(***************************************************************************)
AcceptIffSubsetAccepts ==
    conv.pc = "done" =>
        \A S \in Registered :
            conv.states[S] \in dfa.accept_states <=> S \cap nfa.accept_states # {}

(***************************************************************************)
(* C13: the map from subsets to ids is one-to-one, the seed subset has the *)
(* id 0, the ids given out are 0 .. id - 1 without a gap, and the queue    *)
(* holds, in the order of their discovery, exactly the latest subsets,     *)
(* each once, under its own id.                                            *)
(***************************************************************************)
SubsetIdsDense ==
    Seeded =>
        /\ \A S, T \in Registered : conv.states[S] = conv.states[T] => S = T
        /\ {conv.states[S] : S \in Registered} = 0 .. (conv.id - 1)
        /\ HasKey(conv.states, EpsilonReach(nfa, {nfa.start}))
        /\ conv.states[EpsilonReach(nfa, {nfa.start})] = 0
        /\ \A i \in 1 .. Len(conv.queue) :
              /\ conv.queue[i][1] = conv.id - Len(conv.queue) + i - 1
              /\ HasKey(conv.states, conv.queue[i][2])
              /\ conv.states[conv.queue[i][2]] = conv.queue[i][1]
        /\ conv.pc \in {"label", "closure", "register"} =>
              /\ conv.cur_id = conv.id - Len(conv.queue) - 1
              /\ HasKey(conv.states, conv.cur_state)
              /\ conv.states[conv.cur_state] = conv.cur_id
        /\ \A k \in DOMAIN conv.transitions :
              \E S \in Registered : conv.states[S] = conv.transitions[k]

\* a conversion that returned three states and came upon a subset it had
\* registered before
SubsetIdsWitness ==
    /\ conv.pc = "done"
    /\ conv.id = 3
    /\ Cardinality(DOMAIN conv.transitions) >= conv.id

(***************************************************************************)
(* C18: an expanded subset has a transition on a label of the alphabet     *)
(* exactly when that label reaches some state from it; no id stands for    *)
(* the empty subset, every target is an id given out, and no transition is *)
(* labelled Epsilon.                                                       *)
(***************************************************************************)
TransitionIffReachable ==
    Seeded =>
        /\ \A i \in Expanded : \A a \in Range(conv.alphabet) :
              HasKey(conv.transitions, <<i, a>>)
                  <=> reachable_states(nfa, SubsetOf(i), a) # {}
        /\ {} \notin Registered
        /\ \A k \in DOMAIN conv.transitions :
              /\ conv.transitions[k] \in 0 .. (conv.id - 1)
              /\ k[2] # Epsilon
              /\ k[2] \in Range(conv.alphabet)

\* a conversion that returned, with an expanded subset that has a
\* transition on one label and none on another
TransitionIffWitness ==
    /\ conv.pc = "done"
    /\ \E i \in Expanded : \E a, b \in Range(conv.alphabet) :
          /\ HasKey(conv.transitions, <<i, a>>)
          /\ ~HasKey(conv.transitions, <<i, b>>)

(***************************************************************************)
(* C14: every subset into_dfa registers, the seed and every reach set, is  *)
(* closed under Epsilon transitions.                                       *)
(***************************************************************************)
RegisteredSubsetsClosed ==
    Seeded => \A S \in Registered : reachable_states(nfa, S, Epsilon) \subseteq S

(***************************************************************************)
(* C15: for the label Anything the absorption adds to reach exactly the    *)
(* states that the labels other than Anything reach from reach as it was   *)
(* before the absorption.                                                  *)
(***************************************************************************)
\* new_state as the loop body for Anything had it before the absorption
BeforeAbsorption ==
    EpsilonReach(nfa, reachable_states(nfa, conv.cur_state, Anything))

\* the loop body for the label Anything has just ended
AbsorptionDone ==
    /\ Converting
    /\ conv.pc = "label"
    /\ conv.a > 1
    /\ conv.alphabet[conv.a - 1] = Anything

AbsorptionIsOneRound ==
    AbsorptionDone =>
        conv.new_state =
            BeforeAbsorption
            \cup UNION {reachable_states(nfa, BeforeAbsorption, b) :
                           b \in Range(conv.alphabet) \ {Anything}}

(***************************************************************************)
(* C20: two conversions of one NFA, whatever the orders in which they      *)
(* visit the alphabet, return the same DFA up to a renaming of its states. *)
(***************************************************************************)
\* the pairs of states the two DFAs reach from their start states on the
\* same labels
RECURSIVE Paired(_, _, _)
Paired(d1, d2, R) ==
    LET R2 == R \cup {<<d1.transitions[<<x[1][1], x[2]>>],
                        d2.transitions[<<x[1][2], x[2]>>]>> :
                         x \in {y \in R \X (Labels \ {Epsilon}) :
                                   /\ HasKey(d1.transitions, <<y[1][1], y[2]>>)
                                   /\ HasKey(d2.transitions, <<y[1][2], y[2]>>)}}
    IN IF R2 = R THEN R ELSE Paired(d1, d2, R2)

\* the pairing is a one-to-one correspondence of all the states, and paired
\* states agree on being accept states and on the labels they move on
SameUpToRenaming(d1, d2) ==
    LET R == Paired(d1, d2, {<<d1.start, d2.start>>}) IN
    /\ Cardinality(DfaStateSet(d1)) = Cardinality(DfaStateSet(d2))
    /\ {p[1] : p \in R} = DfaStateSet(d1)
    /\ {p[2] : p \in R} = DfaStateSet(d2)
    /\ \A p, q \in R : p[1] = q[1] <=> p[2] = q[2]
    /\ \A p \in R :
          /\ p[1] \in d1.accept_states <=> p[2] \in d2.accept_states
          /\ \A a \in Labels :
                HasKey(d1.transitions, <<p[1], a>>)
                    <=> HasKey(d2.transitions, <<p[2], a>>)

ConversionOrderIndependent ==
    phase = "converted_again" => SameUpToRenaming(dfa, into_dfa_result(conv))

(***************************************************************************)
(* C16: a pull of the NFA traversal on a non-empty worklist enqueues the   *)
(* successors of the dequeued (state, pos) by the rules of NFA::run, every *)
(* Epsilon destination at pos and, when pos < length, every Anything       *)
(* destination and every Input(symbol at pos) destination at pos + 1, and  *)
(* yields the dequeued state.                                              *)
(***************************************************************************)
\* the pairs NFA::run pushes for (state, pos), nfa.rs 205-215 and 222-226
RunSuccessors(n, s, state, pos) ==
    {<<q, pos>> : q \in Dest(n, state, Epsilon)}
    \cup IF pos < Len(s)
         THEN {<<q, pos + 1>> :
                  q \in Dest(n, state, Anything)
                        \cup Dest(n, state, Input(s[pos + 1]))}
         ELSE {}

\* the pairs a pull has added behind those the worklist held
Enqueued(before, after) ==
    {after[i] : i \in Len(before) .. Len(after)}

NfaIterEnqueuesAsRun ==
    [][(NfaIterNext /\ iter.queue # <<>>) =>
          /\ Enqueued(iter.queue, iter'.queue)
                = RunSuccessors(nfa, input, Head(iter.queue)[1], Head(iter.queue)[2])
          /\ pulled'.last = Some(Head(iter.queue)[1])]_vars

(***************************************************************************)
(* C17, as stated: when an epsilon cycle can be reached from the start     *)
(* state along the transitions of the NFA, every pull of the traversal     *)
(* finds the worklist non-empty.                                           *)
(***************************************************************************)
OnEpsilonCycle(n, q) == q \in EpsilonReach(n, Dest(n, q, Epsilon))

\* the states reached from S along transitions of any label
RECURSIVE GraphReach(_, _)
GraphReach(n, S) ==
    LET S2 == S \cup UNION {Dest(n, q, a) : q \in S, a \in Labels}
    IN IF S2 = S THEN S ELSE GraphReach(n, S2)

EpsilonCycleReachable(n) ==
    \E q \in GraphReach(n, {n.start}) : OnEpsilonCycle(n, q)

EpsilonCycleNeverEnds ==
    (phase = "nfa_iter" /\ pulled.count > 0 /\ EpsilonCycleReachable(nfa))
        => pulled.last # None

(***************************************************************************)
(* C17, amended: once the traversal has yielded a state that lies on an    *)
(* epsilon cycle, every pull returns a state and leaves the worklist       *)
(* non-empty.                                                              *)
(***************************************************************************)
YieldedOnEpsilonCycle ==
    \E i \in DOMAIN pulled.yielded : OnEpsilonCycle(nfa, pulled.yielded[i])

YieldedEpsilonCycleNeverEnds ==
    (phase = "nfa_iter" /\ YieldedOnEpsilonCycle)
        => (pulled.last # None /\ iter.queue # <<>>)

\* the caller has made all its pulls on a traversal that met the cycle only
\* after consuming a symbol, and the worklist holds one pair
YieldedEpsilonCycleWitness ==
    /\ phase = "nfa_iter"
    /\ pulled.count = MaxPulls
    /\ YieldedOnEpsilonCycle
    /\ ~OnEpsilonCycle(nfa, pulled.yielded[1])
    /\ Len(pulled.yielded) = MaxPulls
    /\ Len(iter.queue) = 1

(***************************************************************************)
(* C19: on an NFA with no cycle of Epsilon transitions the traversal ends: *)
(* it yields at most as many states as there are paths of consuming and    *)
(* Epsilon steps from (start, 0), and every pull after that many finds the *)
(* worklist empty and returns None.                                        *)
(***************************************************************************)
\* the number of paths from (state, pos), and from the pairs of S with pos
RECURSIVE PathCount(_, _, _, _), PathCountAll(_, _, _, _)
PathCountAll(n, s, S, pos) ==
    IF S = {}
    THEN 0
    ELSE LET q == CHOOSE x \in S : TRUE
         IN PathCount(n, s, q, pos) + PathCountAll(n, s, S \ {q}, pos)

PathCount(n, s, state, pos) ==
    1 + PathCountAll(n, s, NFAIter_consuming(n, s, state, pos), pos + 1)
      + PathCountAll(n, s, Dest(n, state, Epsilon), pos)

NfaIterTerminates ==
    (phase = "nfa_iter" /\ ~HasEpsilonCycle(nfa)) =>
        LET k == PathCount(nfa, input, nfa.start, 0) IN
        /\ Len(pulled.yielded) <= k
        /\ pulled.count > k => (pulled.last = None /\ iter.queue = <<>>)

\* a traversal that took Epsilon steps and consumed the input has ended
NfaIterTerminatesWitness ==
    /\ phase = "nfa_iter"
    /\ ~HasEpsilonCycle(nfa)
    /\ \E k \in DOMAIN nfa.transitions : k[2] = Epsilon
    /\ Len(input) = MaxLen
    /\ Len(pulled.yielded) >= 6
    /\ pulled.count = Len(pulled.yielded) + 2
    /\ pulled.last = None
====
